---- MODULE Spec2Model ----
(***************************************************************************)
(* Model of pymatgen/io/lammps/data.py: the LammpsForceFieldData mappers   *)
(* (get_param_coeff, get_atoms_data, get_param_data), its serializer       *)
(* (__str__) and its line parser (from_file).                              *)
(*                                                                         *)
(* Python lists are modelled as sequences (index i of the code is index    *)
(* i+1 here), dicts as sequences of <<key, value>> pairs in insertion      *)
(* order, and an attribute as a record [kind, items] where kind is         *)
(* "missing" (no such attribute), "none" (None) or "list".                 *)
(***************************************************************************)
EXTENDS Integers, Sequences, FiniteSets, TLC

\* ------------------------------------------------------------ bounds
MaxTypes == 2      \* molecule types in mols (atoms specification)
MaxReplicas == 2   \* replicas of one molecule type (mols_number[i])
MaxParams == 1     \* local interactions in one topology
MaxAtoms == 2      \* atoms of one molecule type (atoms specification)
MaxRecords == 1    \* rows of one table of a system that is written
MaxLines == 4      \* lines of a data file that is read

\* ------------------------------------------------------------ helpers
Range(s) == {s[i] : i \in DOMAIN s}

RECURSIVE SumSeq(_)
SumSeq(s) == IF s = <<>> THEN 0 ELSE Head(s) + SumSeq(Tail(s))

\* sequences over S of length at most n
SeqUpTo(S, n) == UNION {[1..k -> S] : k \in 0..n}

\* sequences without repeats over S of length at most n (the keys of a dict)
DistinctSeqUpTo(S, n) ==
    {s \in SeqUpTo(S, n) : \A i, j \in DOMAIN s : i # j => s[i] # s[j]}

\* tuple(reversed(t))
Reversed(t) == [i \in 1..Len(t) |-> t[Len(t) + 1 - i]]

\* ------------------------------------------------------------ inputs
\* symbolic type labels of the modelled family (bonds: pairs of atom roles)
Labels == {<<"a", "b">>, <<"b", "a">>, <<"b", "b">>}

Missing == [kind |-> "missing", items |-> <<>>]
None == [kind |-> "none", items |-> <<>>]
List(s) == [kind |-> "list", items |-> s]

\* the coefficient values the force field holds for a label
ValuesOf(label) == IF label = <<"a", "b">> THEN <<11, 12>>
                   ELSE IF label = <<"b", "a">> THEN <<21, 22>>
                   ELSE <<31, 32>>

\* a force field's parameter dictionary: absent, None, or an ordered dict
ForceFields ==
    {Missing, None}
    \cup {List([i \in DOMAIN ks |-> <<ks[i], ValuesOf(ks[i])>>]) :
             ks \in DistinctSeqUpTo(Labels, 2)}

\* the local interaction list of a chain molecule: interaction k joins the
\* local atoms k-1 and k and carries the label ls[k]
ChainParams(ls) == [k \in DOMAIN ls |-> <<k - 1, k, ls[k]>>]

\* molecule types of the parameter specification: a chain of b+1 atoms with b
\* interactions, or a single atom whose topology lacks the family
ParamMolTypes ==
    {[natoms |-> Len(ls) + 1, param |-> List(ChainParams(ls)), charges |-> Missing] :
        ls \in SeqUpTo(Labels, MaxParams)}
    \cup {[natoms |-> 1, param |-> p, charges |-> Missing] : p \in {Missing, None}}

\* the charges attribute of a topology of n atoms: absent, empty, or one
\* (non-zero) charge per atom
ChargeLists(n) == {Missing, List(<<>>), List([l \in 1..n |-> 5 + l])}

\* molecule types of the atoms specification
AtomMolTypes ==
    UNION {{[natoms |-> n, param |-> Missing, charges |-> c] : c \in ChargeLists(n)} :
              n \in 1..MaxAtoms}

\* ------------------------------------------------------------ dicts
HasKey(d, k) == \E i \in DOMAIN d : d[i][1] = k

DictGet(d, k) == d[CHOOSE i \in DOMAIN d : d[i][1] = k][2]

\* d[k] = v: a new key is appended, an existing key keeps its position
DictPut(d, k, v) ==
    IF HasKey(d, k)
    THEN [i \in DOMAIN d |-> IF d[i][1] = k THEN <<k, v>> ELSE d[i]]
    ELSE Append(d, <<k, v>>)

RECURSIVE DictPutAll(_, _)
DictPutAll(d, kvs) ==
    IF kvs = <<>> THEN d ELSE DictPutAll(DictPut(d, Head(kvs)[1], Head(kvs)[2]), Tail(kvs))

\* ------------------------------------------------------------ get_param_coeff
\* get_param_coeff with an empty family treated like an absent one
get_param_coeff_RaiseOnEmpty(forcefield_param) ==
    IF forcefield_param.kind = "list" /\ forcefield_param.items # <<>>
    THEN LET items == forcefield_param.items IN
         [raised |-> "none",
          param_coeffs |-> [k \in DOMAIN items |-> <<k>> \o items[k][2]],
          param_map |-> [k \in DOMAIN items |-> <<items[k][1], k>>]]
    ELSE [raised |-> "AttributeError", param_coeffs |-> <<>>, param_map |-> <<>>]

\* get_param_coeff with the enumerate index itself as the id of the map
get_param_coeff_ZeroBasedMap(forcefield_param) ==
    IF forcefield_param.kind = "missing"
    THEN [raised |-> "AttributeError", param_coeffs |-> <<>>, param_map |-> <<>>]
    ELSE LET items == forcefield_param.items IN
         IF forcefield_param.kind = "list" /\ items # <<>>
         THEN [raised |-> "none",
               param_coeffs |-> [k \in DOMAIN items |-> <<(k - 1) + 1>> \o items[k][2]],
               param_map |-> DictPutAll(<<>>,
                                [k \in DOMAIN items |-> <<items[k][1], k - 1>>])]
         ELSE [raised |-> "none", param_coeffs |-> <<>>, param_map |-> <<>>]

\* forcefield_param: the attribute param_name of the force field
get_param_coeff(forcefield_param) ==
    IF forcefield_param.kind = "missing"
    THEN [raised |-> "AttributeError", param_coeffs |-> <<>>, param_map |-> <<>>]
    ELSE LET items == forcefield_param.items IN
         IF forcefield_param.kind = "list" /\ items # <<>>
         THEN [raised |-> "none",
               \* enumerate index i is (k - 1): id i + 1
               param_coeffs |-> [k \in DOMAIN items |-> <<(k - 1) + 1>> \o items[k][2]],
               param_map |-> DictPutAll(<<>>,
                                [k \in DOMAIN items |-> <<items[k][1], (k - 1) + 1>>])]
         ELSE [raised |-> "none", param_coeffs |-> <<>>, param_map |-> <<>>]

\* ------------------------------------------------------------ get_atoms_data
\* AtomId without the offset of the earlier molecule types
AtomId_NoShift(num_mol_id, natoms, mol_atom_id, shift_) ==
    num_mol_id * natoms + mol_atom_id

\* the global atom id of (replica num_mol_id, local atom mol_atom_id)
AtomId(num_mol_id, natoms, mol_atom_id, shift_) ==
    num_mol_id * natoms + mol_atom_id + shift_

\* the first loop of get_atoms_data, from molecule type mol_type (0-based) on
RECURSIVE AtomMapLoop(_, _, _, _, _, _)
AtomMapLoop(ms, number, mol_type, shift_, atom_to_mol, m2a) ==
    IF mol_type >= Len(ms) THEN [atom_to_mol |-> atom_to_mol, molid_to_atomid |-> m2a]
    ELSE LET natoms == ms[mol_type + 1]
             r == number[mol_type + 1]
             entries == [i \in 1..(r * natoms) |->
                            <<AtomId((i - 1) \div natoms, natoms, (i - 1) % natoms, shift_),
                              <<mol_type, (i - 1) % natoms>>>>]
             tmps == [j \in 1..r |->
                         [l \in 1..natoms |-> AtomId(j - 1, natoms, l - 1, shift_)]]
         IN AtomMapLoop(ms, number, mol_type + 1, shift_ + natoms * r,
                        DictPutAll(atom_to_mol, entries), m2a \o tmps)

\* the molecule-tag field written for site i
MolTag(atom_to_mol, i) == DictGet(atom_to_mol, i)[1] + 1

\* the charge of a site of molecule type mol_type (1-based), local atom
\* mol_atom_id (1-based): [raised, charge]
SiteCharge(topos, mol_type, mol_atom_id) ==
    IF topos[1].charges.kind # "missing"
    THEN LET c == topos[mol_type].charges IN
         IF c.kind = "missing" THEN [raised |-> "AttributeError", charge |-> 0]
         ELSE IF c.kind = "list" /\ c.items # <<>>
              THEN [raised |-> "none", charge |-> c.items[mol_atom_id]]
              ELSE [raised |-> "none", charge |-> 0]
    ELSE [raised |-> "none", charge |-> 0]

\* the second loop of get_atoms_data over the sites i (0-based) of molecule.
\* A row is <<atom id, molecule tag, charge>>: the atom type and the
\* coordinates are copied from the site and are left out.
RECURSIVE AtomRowLoop(_, _, _, _, _)
AtomRowLoop(topos, nsites, atom_to_mol, i, rows) ==
    IF i >= nsites THEN [raised |-> "none", atoms_data |-> rows]
    ELSE IF ~HasKey(atom_to_mol, i) THEN [raised |-> "KeyError", atoms_data |-> <<>>]
    ELSE LET mol_type == MolTag(atom_to_mol, i)
             mol_atom_id == DictGet(atom_to_mol, i)[2] + 1
             ch == SiteCharge(topos, DictGet(atom_to_mol, i)[1] + 1, mol_atom_id)
         IN IF ch.raised # "none" THEN [raised |-> ch.raised, atoms_data |-> <<>>]
            ELSE AtomRowLoop(topos, nsites, atom_to_mol, i + 1,
                             Append(rows, <<i + 1, mol_type, ch.charge>>))

\* [raised, atoms_data, molid_to_atomid]
get_atoms_data(ms, number, nsites, topos) ==
    LET maps == AtomMapLoop(ms, number, 0, 0, <<>>, <<>>)
        rows == AtomRowLoop(topos, nsites, maps.atom_to_mol, 0, <<>>)
    IN [raised |-> rows.raised, atoms_data |-> rows.atoms_data,
        molid_to_atomid |-> IF rows.raised = "none" THEN maps.molid_to_atomid ELSE <<>>,
        atom_to_mol |-> maps.atom_to_mol]

\* ------------------------------------------------------------ get_param_data
\* the guard of get_param_data: hasattr(topologies[0], param_name) and
\* getattr(topologies[0], param_name)
FamilyGuard(topos) ==
    topos[1].param.kind = "list" /\ topos[1].param.items # <<>>

\* the pre-skip global id of (replica num_mol_id, local interaction mol_param_id)
ParamId(num_mol_id, nparams, mol_param_id, shift_) ==
    num_mol_id * nparams + mol_param_id + shift_

\* the first loop of get_param_data, from molecule type mol_type (0-based)
\* on; mol_id counts the replicas walked so far: [raised, param_to_mol]
RECURSIVE ParamMapLoop(_, _, _, _, _, _)
ParamMapLoop(topos, number, mol_type, mol_id, shift_, param_to_mol) ==
    IF mol_type >= Len(topos) THEN [raised |-> "none", param_to_mol |-> param_to_mol]
    ELSE LET param_obj == topos[mol_type + 1].param IN
         IF param_obj.kind = "missing"
         THEN [raised |-> "AttributeError", param_to_mol |-> <<>>]
         ELSE IF param_obj.kind = "none"
         THEN [raised |-> "TypeError", param_to_mol |-> <<>>]
         ELSE LET nparams == Len(param_obj.items)
                  r == number[mol_type + 1]
                  entries == [i \in 1..(r * nparams) |->
                      <<ParamId((i - 1) \div nparams, nparams, (i - 1) % nparams, shift_),
                        <<mol_id + (i - 1) \div nparams, mol_type, (i - 1) % nparams>>>>]
              IN ParamMapLoop(topos, number, mol_type + 1, mol_id + r,
                              shift_ + nparams * r, DictPutAll(param_to_mol, entries))

\* ResolveKey without the reversed lookup
ResolveKey_ForwardOnly(param_map, param_type) ==
    IF HasKey(param_map, param_type) THEN [found |-> TRUE, key |-> param_type]
    ELSE [found |-> FALSE, key |-> <<>>]

\* the key under which param_type resolves in param_map: [found, key]
ResolveKey(param_map, param_type) ==
    IF HasKey(param_map, param_type) THEN [found |-> TRUE, key |-> param_type]
    ELSE IF HasKey(param_map, Reversed(param_type))
         THEN [found |-> TRUE, key |-> Reversed(param_type)]
         ELSE [found |-> FALSE, key |-> <<>>]

\* RecordId without the compaction
RecordId_NoCompaction(param_id, skip) == param_id + 1

\* the id field of an emitted record
RecordId(param_id, skip) == param_id + 1 - skip

\* ParamAtomIds without the translation of the replica
ParamAtomIds_Untranslated(m2a, mol_id, param) ==
    [a \in 1..(Len(param) - 1) |-> param[a] + 1]

\* the global (1-based) atom ids of a local interaction of replica mol_id
ParamAtomIds(m2a, mol_id, param) ==
    [a \in 1..(Len(param) - 1) |-> m2a[mol_id + 1][param[a] + 1] + 1]

\* the second loop of get_param_data over the items of param_to_mol, from
\* position pos on: [param_data, skip, printed]
RECURSIVE ParamRowLoop(_, _, _, _, _, _, _, _)
ParamRowLoop(param_map, topos, m2a, param_to_mol, pos, skip, rows, printed) ==
    IF pos > Len(param_to_mol)
    THEN [param_data |-> rows, skip |-> skip, printed |-> printed]
    ELSE LET param_id == param_to_mol[pos][1]
             pinfo == param_to_mol[pos][2]
             param == topos[pinfo[2] + 1].param.items[pinfo[3] + 1]
             param_type == param[Len(param)]
             res == ResolveKey(param_map, param_type)
         IN IF res.found /\ res.key # <<>>
            THEN ParamRowLoop(param_map, topos, m2a, param_to_mol, pos + 1, skip,
                     Append(rows, <<RecordId(param_id, skip), DictGet(param_map, res.key)>>
                                      \o ParamAtomIds(m2a, pinfo[1], param)),
                     printed)
            ELSE ParamRowLoop(param_map, topos, m2a, param_to_mol, pos + 1, skip + 1,
                     rows, Append(printed, param_type))

\* [raised, param_data, param_to_mol, skip, printed]
get_param_data(param_map, number, topos, m2a) ==
    IF FamilyGuard(topos)
    THEN LET maps == ParamMapLoop(topos, number, 0, 0, 0, <<>>) IN
         IF maps.raised # "none"
         THEN [raised |-> maps.raised, param_data |-> <<>>, param_to_mol |-> <<>>,
               skip |-> 0, printed |-> <<>>]
         ELSE LET rows == ParamRowLoop(param_map, topos, m2a, maps.param_to_mol,
                                       1, 0, <<>>, <<>>)
              IN [raised |-> "none", param_data |-> rows.param_data,
                  param_to_mol |-> maps.param_to_mol, skip |-> rows.skip,
                  printed |-> rows.printed]
    ELSE [raised |-> "none", param_data |-> <<>>, param_to_mol |-> <<>>, skip |-> 0,
          printed |-> <<>>]

\* ------------------------------------------------------------ data file text
\* A line of the data file is the sequence of its whitespace-separated
\* tokens, a token [k, v]: k = "int" is a digit string (value v), "dec" a
\* non-negative decimal literal with a point (v halves: "1.5" is v = 3),
\* "sci" a literal with a sign or an exponent (minus v halves); any other k
\* is that word.
I(n) == [k |-> "int", v |-> n]
D(h) == [k |-> "dec", v |-> h]
S(h) == [k |-> "sci", v |-> h]
W(w) == [k |-> w, v |-> 0]

\* Python values of the tables: int n, or float of v halves
PyInt(n) == [ty |-> "int", neg |-> FALSE, v |-> n]
PyFloat(neg, h) == [ty |-> "float", neg |-> neg, v |-> h]

\* str(x)
Str(x) == IF x.ty = "int" THEN I(x.v) ELSE IF x.neg THEN S(x.v) ELSE D(x.v)

\* " ".join([str(x) for x in ad])
JoinRow(ad) == [i \in DOMAIN ad |-> Str(ad[i])]

\* \d+
IsDigits(tok) == tok.k = "int"
\* [0-9\.]+
IsPlainNumber(tok) == tok.k \in {"int", "dec"}
\* [0-9eE\.+-]+
IsNumber(tok) == tok.k \in {"int", "dec", "sci"}
\* [a-zA-Z]+
IsWord(tok) == ~IsNumber(tok)

\* int(tok) and float(tok) succeed
IntParseable(tok) == tok.k = "int"
FloatParseable(tok) == IsNumber(tok)

\* int(tok), float(tok)
ToInt(tok) == PyInt(tok.v)
ToFloat(tok) == IF tok.k = "int" THEN PyFloat(FALSE, 2 * tok.v)
                ELSE PyFloat(tok.k = "sci", tok.v)

\* word.lower()
Lower(w) ==
    CASE w = "Pair" -> "pair" [] w = "Bond" -> "bond" [] w = "Angle" -> "angle"
      [] w = "Dihedral" -> "dihedral" [] w = "Improper" -> "improper"
      [] w = "Coeffs" -> "coeffs" [] OTHER -> w

\* "<Family> Coeffs".lower() in line.lower()
HasSectionName(line, family) ==
    \E i \in 1..(Len(line) - 1) :
        Lower(line[i].k) = family /\ Lower(line[i + 1].k) = "coeffs"

\* types_pattern: ^\s*(\d+)\s+([a-zA-Z]+)\s+types$
TypesMatch(line) ==
    Len(line) = 3 /\ IsDigits(line[1]) /\ IsWord(line[2]) /\ line[3].k = "types"

\* masses_pattern: ^\s*(\d+)\s+([0-9\.]+)$
MassesMatch(line) == Len(line) = 2 /\ IsDigits(line[1]) /\ IsPlainNumber(line[2])

\* box_pattern: ^\s*([0-9eE\.+-]+)\s+([0-9eE\.+-]+)\s+[xyz]lo\s+[xyz]hi
BoxMatch(line) ==
    /\ Len(line) >= 4 /\ IsNumber(line[1]) /\ IsNumber(line[2])
    /\ line[3].k \in {"xlo", "ylo", "zlo"} /\ line[4].k \in {"xhi", "yhi", "zhi"}

\* general_coeff_pattern: ^\s*(\d+)\s+([0-9\.]+)\s+([0-9\.]+)$
GeneralCoeffMatch(line) ==
    Len(line) = 3 /\ IsDigits(line[1]) /\ IsPlainNumber(line[2]) /\ IsPlainNumber(line[3])

\* atoms_pattern: three digit strings, four numbers, then anything
AtomsMatch(line) ==
    /\ Len(line) >= 7
    /\ \A i \in 1..3 : IsDigits(line[i])
    /\ \A i \in 4..7 : IsNumber(line[i])

\* bond / angle / dihedral_data_pattern: exactly n digit strings
IntRowMatch(line, n) == Len(line) = n /\ \A i \in 1..n : IsDigits(line[i])

\* ------------------------------------------------------------ from_file
\* the value of a count variable that no header line has bound yet
Unbound == 0 - 1

\* the local variables of from_file before the first line
InitialParser ==
    [atomic_masses |-> <<>>, box_size |-> <<>>,
     pair_coeffs |-> <<>>, bond_coeffs |-> <<>>, angle_coeffs |-> <<>>,
     dihedral_coeffs |-> <<>>, improper_coeffs |-> <<>>,
     atoms_data |-> <<>>, bonds_data |-> <<>>, angles_data |-> <<>>,
     dihedral_data |-> <<>>, imdihedral_data |-> <<>>,
     natom_types |-> Unbound, npair_types |-> Unbound, nbond_types |-> Unbound,
     nangle_types |-> Unbound, ndihedral_types |-> Unbound,
     nimproper_types |-> Unbound,
     read_pair_coeffs |-> FALSE, read_bond_coeffs |-> FALSE,
     read_angle_coeffs |-> FALSE, read_dihedral_coeffs |-> FALSE,
     read_improper_coeffs |-> FALSE,
     raised |-> "none"]

\* the count header branch
TypesStep(st, line) ==
    IF ~TypesMatch(line) THEN st
    ELSE LET n == line[1].v
             g == line[2].k
         IN CASE g = "atom" -> [st EXCEPT !.natom_types = n, !.npair_types = n]
              [] g = "bond" -> [st EXCEPT !.nbond_types = n]
              [] g = "angle" -> [st EXCEPT !.nangle_types = n]
              [] g = "dihedral" -> [st EXCEPT !.ndihedral_types = n]
              [] g = "improper" -> [st EXCEPT !.nimproper_types = n]
              [] OTHER -> st

MassesStep(st, line) ==
    IF MassesMatch(line)
    THEN [st EXCEPT !.atomic_masses = Append(@, <<ToInt(line[1]), ToFloat(line[2])>>)]
    ELSE st

BoxStep(st, line) ==
    IF BoxMatch(line)
    THEN [st EXCEPT !.box_size = Append(@, <<ToFloat(line[1]), ToFloat(line[2])>>)]
    ELSE st

\* AfterRow that leaves the section active whatever the table's length
AfterRow_NeverLeaves(st, coeffs, flag, count) ==
    IF st[count] = Unbound THEN [st EXCEPT !.raised = "UnboundLocalError"]
    ELSE st

\* the flag update after a row: "False if len(coeffs) >= n else True", which
\* reads a count that a header line must have bound
AfterRow(st, coeffs, flag, count) ==
    IF st[count] = Unbound THEN [st EXCEPT !.raised = "UnboundLocalError"]
    ELSE [st EXCEPT ![flag] = ~(Len(st[coeffs]) >= st[count])]

\* an active pair / dihedral / improper section: the line is split and
\* every non-blank line is taken as a row
TokenStep(st, line, coeffs, flag, count) ==
    IF ~st[flag] \/ line = <<>> THEN st
    ELSE IF ~IntParseable(line[1]) \/ \E i \in 2..Len(line) : ~FloatParseable(line[i])
         THEN [st EXCEPT !.raised = "ValueError"]
         ELSE AfterRow([st EXCEPT ![coeffs] = Append(@,
                           <<ToInt(line[1])>> \o [i \in 1..(Len(line) - 1) |->
                                                     ToFloat(line[i + 1])])],
                       coeffs, flag, count)

\* an active bond / angle section: only lines of general_coeff_pattern
PatternStep(st, line, coeffs, flag, count) ==
    IF ~st[flag] \/ ~GeneralCoeffMatch(line) THEN st
    ELSE AfterRow([st EXCEPT ![coeffs] = Append(@,
                      <<ToInt(line[1]), ToFloat(line[2]), ToFloat(line[3])>>)],
                  coeffs, flag, count)

IntRow(line) == [i \in DOMAIN line |-> ToInt(line[i])]

\* the atom and bonded record branches at the end of the loop body
DataStep(st, line) ==
    LET a == IF AtomsMatch(line)
             THEN [st EXCEPT !.atoms_data = Append(@,
                      [i \in 1..7 |-> IF i <= 3 THEN ToInt(line[i]) ELSE ToFloat(line[i])])]
             ELSE st
        b == IF IntRowMatch(line, 4) /\ a.atoms_data # <<>>
             THEN [a EXCEPT !.bonds_data = Append(@, IntRow(line))] ELSE a
        c == IF IntRowMatch(line, 5) /\ b.atoms_data # <<>>
             THEN [b EXCEPT !.angles_data = Append(@, IntRow(line))] ELSE b
    IN IF IntRowMatch(line, 6) /\ c.atoms_data # <<>>
       THEN [c EXCEPT !.dihedral_data = Append(@, IntRow(line))] ELSE c

\* one pass of the loop body of from_file over a line
ProcessLine(st, line) ==
    LET s3 == BoxStep(MassesStep(TypesStep(st, line), line), line) IN
    IF HasSectionName(line, "pair") THEN [s3 EXCEPT !.read_pair_coeffs = TRUE]
    ELSE LET s5 == TokenStep(s3, line, "pair_coeffs", "read_pair_coeffs", "npair_types") IN
    IF s5.raised # "none" THEN s5
    ELSE IF HasSectionName(line, "bond") THEN [s5 EXCEPT !.read_bond_coeffs = TRUE]
    ELSE LET s7 == PatternStep(s5, line, "bond_coeffs", "read_bond_coeffs", "nbond_types") IN
    IF s7.raised # "none" THEN s7
    ELSE IF HasSectionName(line, "angle") THEN [s7 EXCEPT !.read_angle_coeffs = TRUE]
    ELSE LET s9 == PatternStep(s7, line, "angle_coeffs", "read_angle_coeffs", "nangle_types") IN
    IF s9.raised # "none" THEN s9
    ELSE IF HasSectionName(line, "dihedral") THEN [s9 EXCEPT !.read_dihedral_coeffs = TRUE]
    ELSE LET s11 == TokenStep(s9, line, "dihedral_coeffs", "read_dihedral_coeffs",
                              "ndihedral_types") IN
    IF s11.raised # "none" THEN s11
    ELSE IF HasSectionName(line, "improper") THEN [s11 EXCEPT !.read_improper_coeffs = TRUE]
    ELSE LET s13 == TokenStep(s11, line, "improper_coeffs", "read_improper_coeffs",
                              "nimproper_types") IN
    IF s13.raised # "none" THEN s13
    ELSE DataStep(s13, line)

\* ------------------------------------------------------------ LammpsForceFieldData
\* LammpsForceFieldData.__init__ (and LammpsData.__init__)
LammpsForceFieldData(box_size, atomic_masses, pair_coeffs, bond_coeffs, angle_coeffs, dihedral_coeffs, improper_coeffs, atoms, bonds_data, angles_data, dihedrals_data, imdihedrals_data) ==
    [box_size |-> box_size,
     natoms |-> Len(atoms), natom_types |-> Len(atomic_masses),
     atomic_masses |-> atomic_masses, atoms_data |-> atoms,
     nbond_types |-> Len(bond_coeffs), nangle_types |-> Len(angle_coeffs),
     ndih_types |-> Len(dihedral_coeffs), nimdih_types |-> Len(improper_coeffs),
     nbonds |-> Len(bonds_data), nangles |-> Len(angles_data),
     ndih |-> Len(dihedrals_data), nimdihs |-> Len(imdihedrals_data),
     pair_coeffs |-> pair_coeffs, bond_coeffs |-> bond_coeffs,
     angle_coeffs |-> angle_coeffs, dihedral_coeffs |-> dihedral_coeffs,
     improper_coeffs |-> improper_coeffs,
     bonds_data |-> bonds_data, angles_data |-> angles_data,
     dihedrals_data |-> dihedrals_data, imdihedrals_data |-> imdihedrals_data]

\* the return statement of from_file
FromFileResult(st) ==
    LammpsForceFieldData(st.box_size, st.atomic_masses, st.pair_coeffs,
                         st.bond_coeffs, st.angle_coeffs, st.dihedral_coeffs,
                         st.improper_coeffs, st.atoms_data, st.bonds_data,
                         st.angles_data, st.dihedral_data, st.imdihedral_data)

\* ------------------------------------------------------------ __str__
\* An element of the list "lines" is the sequence of the physical lines it
\* holds; '\n'.join(lines) read line by line is their concatenation.
RECURSIVE JoinLines(_)
JoinLines(lines) == IF lines = <<>> THEN <<>> ELSE Head(lines) \o JoinLines(Tail(lines))

\* set_lines_from_list: the elements appended for a block
set_lines_from_list(block_name, input_list) ==
    IF input_list # <<>>
    THEN << <<<<>>, block_name, <<>>>> >>
         \o [i \in DOMAIN input_list |-> <<JoinRow(input_list[i])>>]
    ELSE <<>>

\* "{} <word>".format(n) and "{} <word> types".format(n)
CountLine(n, word) == <<I(n), W(word)>>
TypesLine(n, word) == <<I(n), W(word), W("types")>>

\* CountLines with every bonded count line conditional
CountLines_AllConditional(d) ==
    << <<CountLine(d.natoms, "atoms")>> >>
    \o (IF d.nbonds > 0 THEN << <<CountLine(d.nbonds, "bonds")>> >> ELSE <<>>)
    \o (IF d.nangles > 0 THEN << <<CountLine(d.nangles, "angles")>> >> ELSE <<>>)
    \o (IF d.ndih > 0 THEN << <<CountLine(d.ndih, "dihedrals")>> >> ELSE <<>>)
    \o (IF d.nimdihs > 0 THEN << <<CountLine(d.nimdihs, "impropers")>> >> ELSE <<>>)

\* the "# count" elements of __str__
CountLines(d) ==
    << <<CountLine(d.natoms, "atoms")>>,
       <<CountLine(d.nbonds, "bonds")>>,
       <<CountLine(d.nangles, "angles")>> >>
    \o (IF d.ndih > 0 THEN << <<CountLine(d.ndih, "dihedrals")>> >> ELSE <<>>)
    \o (IF d.nimdihs > 0 THEN << <<CountLine(d.nimdihs, "impropers")>> >> ELSE <<>>)

\* the "# types" elements of __str__
TypeCountLines(d) ==
    << <<<<>>, TypesLine(d.natom_types, "atom")>>,
       <<TypesLine(d.nbond_types, "bond")>>,
       <<TypesLine(d.nangle_types, "angle")>> >>
    \o (IF d.ndih > 0 THEN << <<TypesLine(d.ndih_types, "dihedral")>> >> ELSE <<>>)
    \o (IF d.nimdihs > 0 THEN << <<TypesLine(d.nimdih_types, "improper")>> >> ELSE <<>>)

\* the "# box size" element
BoxLines(d) ==
    << <<<<>>,
         <<Str(d.box_size[1][1]), Str(d.box_size[1][2]), W("xlo"), W("xhi")>>,
         <<Str(d.box_size[2][1]), Str(d.box_size[2][2]), W("ylo"), W("yhi")>>,
         <<Str(d.box_size[3][1]), Str(d.box_size[3][2]), W("zlo"), W("zhi")>>>> >>

\* LammpsForceFieldData.__str__, as the lines of the text
ToStr(d) ==
    JoinLines(
        << <<<<W("Data"), W("file"), W("generated"), W("by"), W("pymatgen")>>, <<>>>> >>
        \o CountLines(d)
        \o TypeCountLines(d)
        \o BoxLines(d)
        \o set_lines_from_list(<<W("Masses")>>, d.atomic_masses)
        \o set_lines_from_list(<<W("Pair"), W("Coeffs")>>, d.pair_coeffs)
        \o set_lines_from_list(<<W("Bond"), W("Coeffs")>>, d.bond_coeffs)
        \o set_lines_from_list(<<W("Angle"), W("Coeffs")>>, d.angle_coeffs)
        \o (IF d.ndih > 0
            THEN set_lines_from_list(<<W("Dihedral"), W("Coeffs")>>, d.dihedral_coeffs)
            ELSE <<>>)
        \o (IF d.nimdihs > 0
            THEN set_lines_from_list(<<W("Improper"), W("Coeffs")>>, d.improper_coeffs)
            ELSE <<>>)
        \o set_lines_from_list(<<W("Atoms")>>, d.atoms_data)
        \o set_lines_from_list(<<W("Bonds")>>, d.bonds_data)
        \o set_lines_from_list(<<W("Angles")>>, d.angles_data)
        \o (IF d.ndih > 0
            THEN set_lines_from_list(<<W("Dihedrals")>>, d.dihedrals_data) ELSE <<>>)
        \o (IF d.nimdihs > 0
            THEN set_lines_from_list(<<W("Impropers")>>, d.imdihedrals_data) ELSE <<>>))

\* ------------------------------------------------------------ systems written
\* the rows of the tables of a system: row i of a table carries id i
MassRow(i) == <<PyInt(i), PyFloat(FALSE, 2 * i + 1)>>
CoeffRow(i, nvalues) == <<PyInt(i)>> \o [j \in 1..nvalues |-> PyFloat(FALSE, 2 * j + 1)]
AtomRow(i) == <<PyInt(i), PyInt(1), PyInt(1), PyFloat(TRUE, 1),
                PyFloat(FALSE, 2 * i), PyFloat(FALSE, 1), PyFloat(TRUE, 3)>>
BondedRow(i, natomids) == <<PyInt(i), PyInt(1)>> \o [j \in 1..natomids |-> PyInt(j)]

TheBox == [a \in 1..3 |-> <<PyFloat(FALSE, 0), PyFloat(FALSE, 20)>>]

\* the empty object, before a system exists
NoData == LammpsForceFieldData(<<>>, <<>>, <<>>, <<>>, <<>>, <<>>, <<>>, <<>>,
                               <<>>, <<>>, <<>>, <<>>)

\* the systems handed to __str__: at least one atom and one atom type, any
\* number of rows in the other tables
Systems ==
    {LammpsForceFieldData(TheBox,
        [i \in 1..c[1] |-> MassRow(i)],
        [i \in 1..c[2] |-> CoeffRow(i, 2)],
        [i \in 1..c[3] |-> CoeffRow(i, 2)],
        [i \in 1..c[4] |-> CoeffRow(i, 3)],
        [i \in 1..c[5] |-> CoeffRow(i, 4)],
        [i \in 1..c[6] |-> CoeffRow(i, 4)],
        [i \in 1..c[7] |-> AtomRow(i)],
        [i \in 1..c[8] |-> BondedRow(i, 2)],
        [i \in 1..c[9] |-> BondedRow(i, 3)],
        [i \in 1..c[10] |-> BondedRow(i, 4)],
        [i \in 1..c[11] |-> BondedRow(i, 4)]) :
     c \in {x \in [1..11 -> 0..MaxRecords] : x[1] >= 1 /\ x[7] >= 1}}

\* the lines a data file handed to from_file is made of
InputLines ==
    { <<>>,
      <<W("Data"), W("file")>>,
      TypesLine(1, "atom"), TypesLine(2, "bond"), TypesLine(1, "dihedral"),
      <<W("Pair"), W("Coeffs")>>, <<W("Bond"), W("Coeffs")>>,
      <<W("Dihedral"), W("Coeffs")>>,
      <<I(1), D(3)>>, <<I(1), D(3), D(5)>>, <<I(1), D(3), D(5), S(1)>>,
      <<I(1), I(1), I(1), S(1), D(0), D(1), D(2)>>,
      <<I(1), I(1), I(1), I(2)>> }

\* ------------------------------------------------------------ state
VARIABLES
    pc,               \* the call from_forcefield_and_topology is at, or "done"
    mols,             \* len(mols[i]) for each molecule type
    mols_number,      \* replica count of each molecule type
    molecule,         \* len(molecule), the assembled structure
    topologies,       \* per molecule type: [param, charges]
    forcefield,       \* the force field's parameter dictionary of the family
    raised,           \* the exception the call at pc raised, or "none"
    param_coeffs, param_map,          \* results of get_param_coeff
    atoms_data, molid_to_atomid,      \* results of get_atoms_data
    param_data,       \* result of get_param_data
    param_to_mol, skip, printed,  \* its enumeration, skip counter and diagnostics
    data,             \* the LammpsForceFieldData that is written
    text,             \* the lines of the data file __str__ produced
    line, lineno,     \* the line from_file is at, and the number of lines read
    parser,           \* the local variables of from_file
    parsed            \* the LammpsForceFieldData from_file returns

inputVars == <<mols, mols_number, molecule, topologies, forcefield>>
coeffVars == <<param_coeffs, param_map>>
atomVars == <<atoms_data, molid_to_atomid>>
paramVars == <<param_data, param_to_mol, skip, printed>>
mapVars == <<raised, inputVars, coeffVars, atomVars, paramVars>>
fileVars == <<data, text, line, lineno, parser, parsed>>
vars == <<pc, mapVars, fileVars>>

\* the assembled structure holds every replica of every molecule type
Assembled(ms, number) == SumSeq([i \in DOMAIN ms |-> ms[i] * number[i]])

\* no data file is written or read
NoFile ==
    /\ data = NoData /\ text = <<>> /\ line = <<>> /\ lineno = 0
    /\ parser = InitialParser /\ parsed = NoData

NoResults ==
    /\ raised = "none"
    /\ param_coeffs = <<>> /\ param_map = <<>>
    /\ atoms_data = <<>> /\ molid_to_atomid = <<>>
    /\ param_data = <<>> /\ param_to_mol = <<>> /\ skip = 0 /\ printed = <<>>

\* from_forcefield_and_topology on chain molecules, one family: a first
\* molecule type and at most one later type
Init ==
    /\ pc = "coeff"
    /\ \E n \in {1, 2} :
          /\ topologies \in [1..n -> ParamMolTypes]
          /\ mols_number \in [1..n -> 1..MaxReplicas]
    /\ mols = [i \in DOMAIN topologies |-> topologies[i].natoms]
    /\ molecule = Assembled(mols, mols_number)
    /\ forcefield \in ForceFields
    /\ NoResults
    /\ NoFile

GetParamCoeff ==
    /\ pc = "coeff" /\ raised = "none"
    /\ LET r == get_param_coeff(forcefield) IN
          /\ raised' = r.raised
          /\ param_coeffs' = r.param_coeffs
          /\ param_map' = r.param_map
          /\ pc' = IF r.raised = "none" THEN "atoms" ELSE pc
    /\ UNCHANGED <<inputVars, atomVars, paramVars, fileVars>>

GetAtomsData ==
    /\ pc = "atoms" /\ raised = "none"
    /\ LET r == get_atoms_data(mols, mols_number, molecule, topologies) IN
          /\ raised' = r.raised
          /\ atoms_data' = r.atoms_data
          /\ molid_to_atomid' = r.molid_to_atomid
          /\ pc' = IF r.raised = "none" THEN "params" ELSE pc
    /\ UNCHANGED <<inputVars, coeffVars, paramVars, fileVars>>

GetParamData ==
    /\ pc = "params" /\ raised = "none"
    /\ LET r == get_param_data(param_map, mols_number, topologies, molid_to_atomid) IN
          /\ raised' = r.raised
          /\ param_data' = r.param_data
          /\ param_to_mol' = r.param_to_mol
          /\ skip' = r.skip
          /\ printed' = r.printed
          /\ pc' = IF r.raised = "none" THEN "done" ELSE pc
    /\ UNCHANGED <<inputVars, coeffVars, atomVars, fileVars>>

\* the return statement of from_forcefield_and_topology, with the mapped
\* family in the place of the family named
BuiltSystem(family) ==
    LammpsForceFieldData(TheBox, <<>>, <<>>,
        IF family = "bonds" THEN param_coeffs ELSE <<>>,
        IF family = "angles" THEN param_coeffs ELSE <<>>,
        IF family = "dihedrals" THEN param_coeffs ELSE <<>>,
        IF family = "imdihedrals" THEN param_coeffs ELSE <<>>,
        atoms_data,
        IF family = "bonds" THEN param_data ELSE <<>>,
        IF family = "angles" THEN param_data ELSE <<>>,
        IF family = "dihedrals" THEN param_data ELSE <<>>,
        IF family = "imdihedrals" THEN param_data ELSE <<>>)

Next == GetParamCoeff \/ GetAtomsData \/ GetParamData

Spec == Init /\ [][Next]_vars

\* get_atoms_data alone, on molecule types of any size with any charges
InitAtoms ==
    /\ pc = "atoms"
    /\ \E n \in 1..MaxTypes :
          /\ topologies \in [1..n -> AtomMolTypes]
          /\ mols_number \in [1..n -> 0..MaxReplicas]
    /\ mols = [i \in DOMAIN topologies |-> topologies[i].natoms]
    /\ molecule = Assembled(mols, mols_number)
    /\ forcefield = Missing
    /\ NoResults
    /\ NoFile

NextAtoms == GetAtomsData

SpecAtoms == InitAtoms /\ [][NextAtoms]_vars

\* no force field and no topology are mapped
NoMapper ==
    /\ mols = <<>> /\ mols_number = <<>> /\ molecule = 0 /\ topologies = <<>>
    /\ forcefield = Missing
    /\ NoResults

\* __str__ of a system
WriteData ==
    /\ pc = "str"
    /\ text' = ToStr(data)
    /\ pc' = "from_file"
    /\ UNCHANGED <<mapVars, data, line, lineno, parser, parsed>>

\* the loop body of from_file on the next line of the written text
ReadTextLine ==
    /\ pc = "from_file" /\ parser.raised = "none"
    /\ lineno < Len(text)
    /\ line' = text[lineno + 1]
    /\ lineno' = lineno + 1
    /\ parser' = ProcessLine(parser, line')
    /\ UNCHANGED <<pc, mapVars, data, text, parsed>>

\* the end of the written text: from_file returns
FinishText ==
    /\ pc = "from_file" /\ parser.raised = "none"
    /\ lineno = Len(text)
    /\ parsed' = FromFileResult(parser)
    /\ pc' = "constructed"
    /\ UNCHANGED <<mapVars, data, text, line, lineno, parser>>

\* the loop body of from_file on the next line of any data file
ReadInputLine ==
    /\ pc = "from_file" /\ parser.raised = "none"
    /\ lineno < MaxLines
    /\ \E l \in InputLines :
          /\ line' = l
          /\ parser' = ProcessLine(parser, l)
    /\ lineno' = lineno + 1
    /\ UNCHANGED <<pc, mapVars, data, text, parsed>>

\* the end of any data file: from_file returns
FinishInput ==
    /\ pc = "from_file" /\ parser.raised = "none"
    /\ parsed' = FromFileResult(parser)
    /\ pc' = "constructed"
    /\ UNCHANGED <<mapVars, data, text, line, lineno, parser>>

\* a system is written
InitWrite ==
    /\ pc = "str"
    /\ data \in Systems
    /\ text = <<>> /\ line = <<>> /\ lineno = 0
    /\ parser = InitialParser /\ parsed = NoData
    /\ NoMapper

NextWrite == WriteData

SpecWrite == InitWrite /\ [][NextWrite]_vars

\* a system is written and the text is read back
NextRound == WriteData \/ ReadTextLine \/ FinishText

SpecRound == InitWrite /\ [][NextRound]_vars

\* from_file on any data file
InitParse ==
    /\ pc = "from_file"
    /\ NoFile
    /\ NoMapper

NextParse == ReadInputLine \/ FinishInput

SpecParse == InitParse /\ [][NextParse]_vars

\* ------------------------------------------------------------ claims
RECURSIVE Flatten(_)
Flatten(ss) == IF ss = <<>> THEN <<>> ELSE Head(ss) \o Flatten(Tail(ss))

\* the local interactions of molecule type t (1-based), none when the
\* topology lacks the family
InteractionsOf(t) ==
    IF topologies[t].param.kind = "list" THEN topologies[t].param.items ELSE <<>>

\* the label of the interaction an entry of param_to_mol stands for
EnumLabel(e) == LET p == topologies[e[2][2] + 1].param.items[e[2][3] + 1] IN p[Len(p)]

\* the labels of the enumerated interactions, in enumeration order
EnumLabels == [i \in DOMAIN param_to_mol |-> EnumLabel(param_to_mol[i])]

Registered(label) == HasKey(param_map, label)

Unresolved(label) == ~Registered(label) /\ ~Registered(Reversed(label))

\* the row of param_data that holds the i-th enumerated interaction
RowOf(i) == i - Cardinality({j \in 1..(i - 1) : Unresolved(EnumLabels[j])})

\* C1: when get_param_data returns, the table has n-k rows for n enumerated
\* and k unresolved interactions, and row j carries id j
C1_SkipCompaction ==
    pc = "done" =>
        /\ skip = Cardinality({i \in DOMAIN EnumLabels : Unresolved(EnumLabels[i])})
        /\ Len(param_data) = Len(param_to_mol) - skip
        /\ \A j \in DOMAIN param_data : param_data[j][1] = j

\* a record was emitted after an earlier interaction had been skipped
C1_Witness ==
    /\ pc = "done" /\ skip > 0 /\ param_data # <<>>
    /\ Unresolved(EnumLabels[1])

\* C2: an enumerated interaction whose label is registered, or whose
\* reversed label is registered while the label is not, is emitted with the
\* coeffId registered for that key; only the interactions with neither are
\* skipped (and reported)
C2_SymmetricResolution ==
    pc = "done" =>
        /\ \A i \in DOMAIN EnumLabels :
              LET l == EnumLabels[i] IN
              /\ Registered(l) =>
                    /\ RowOf(i) \in DOMAIN param_data
                    /\ param_data[RowOf(i)][2] = DictGet(param_map, l)
              /\ (~Registered(l) /\ Registered(Reversed(l))) =>
                    /\ RowOf(i) \in DOMAIN param_data
                    /\ param_data[RowOf(i)][2] = DictGet(param_map, Reversed(l))
        /\ printed = SelectSeq(EnumLabels, Unresolved)
        /\ Len(param_data) = Len(EnumLabels) - Len(printed)

\* an interaction declared with the reverse of the one registered label
C2_Witness ==
    /\ pc = "done" /\ param_data # <<>>
    /\ \E i \in DOMAIN EnumLabels :
          /\ ~Registered(EnumLabels[i])
          /\ Registered(Reversed(EnumLabels[i]))

\* the sum over the molecule types of r_i * b_i
ExpectedEnumeration ==
    SumSeq([t \in DOMAIN topologies |-> mols_number[t] * Len(InteractionsOf(t))])

\* C3: the number of interactions get_param_data enumerates is the sum of
\* r_i * b_i, and with every label resolvable that is the number of rows
C3_ReplicaExpansion ==
    pc = "done" =>
        /\ Len(param_to_mol) = ExpectedEnumeration
        /\ Len(param_data) + skip = ExpectedEnumeration

\* the size n_t of every replica, in (type, replica) order
ReplicaSizes == Flatten([t \in DOMAIN mols |-> [p \in 1..mols_number[t] |-> mols[t]]])

\* C4: molid_to_atomid has one entry per replica in (type, replica) order,
\* its entries read in order are the indices 0..sum-1, every site of the
\* assembled structure has a translation, and the atom records carry the
\* ids 1..sum in structure order
C4_AtomIdBijection ==
    /\ raised # "KeyError"
    /\ (pc = "params" =>
          /\ Len(molid_to_atomid) = Len(ReplicaSizes)
          /\ \A g \in DOMAIN molid_to_atomid : Len(molid_to_atomid[g]) = ReplicaSizes[g]
          /\ Flatten(molid_to_atomid) = [i \in 1..molecule |-> i - 1]
          /\ Len(atoms_data) = molecule
          /\ \A i \in DOMAIN atoms_data : atoms_data[i][1] = i)

\* two replicas of a two-atom type followed by a later type
C4_Witness ==
    /\ pc = "params" /\ Len(mols) = 2
    /\ mols[1] = 2 /\ mols_number[1] = 2 /\ mols_number[2] >= 1
    /\ Len(atoms_data) >= 5

\* C7: get_param_coeff raises AttributeError exactly when the family is
\* absent from the force field; otherwise entry k of the dictionary gives the
\* row (k, values...) and the map entry label -> k (none for an empty family)
C7_ParamCoeffContract ==
    (pc # "coeff" \/ raised # "none") =>
        /\ (pc = "coeff" /\ raised = "AttributeError") <=> forcefield.kind = "missing"
        /\ forcefield.kind # "missing" =>
              /\ Len(param_coeffs) = Len(forcefield.items)
              /\ Len(param_map) = Len(forcefield.items)
              /\ \A k \in DOMAIN forcefield.items :
                    /\ param_coeffs[k] = <<k>> \o forcefield.items[k][2]
                    /\ param_map[k] = <<forcefield.items[k][1], k>>

\* a family of two entries was mapped
C7_Witness ==
    /\ pc = "atoms" /\ forcefield.kind = "list"
    /\ Len(forcefield.items) = 2 /\ Len(param_coeffs) = 2

\* C8: get_param_data never raises; a family absent from every topology
\* gives the empty list; every unresolved label is reported
C8_NeverRaises ==
    /\ (pc = "params" => raised = "none")
    /\ (pc = "done" /\ (\A t \in DOMAIN topologies : InteractionsOf(t) = <<>>)
           => param_data = <<>>)
    /\ (pc = "done" => Len(printed) = skip)

\* C10: the molecule-id field of every atom record is the 1-based global id
\* of the replica that owns the atom
C10_GlobalMoleculeId ==
    pc = "params" =>
        \A g \in DOMAIN molid_to_atomid :
            \A k \in DOMAIN molid_to_atomid[g] :
                atoms_data[molid_to_atomid[g][k] + 1][2] = g

\* the type ids of a mass table, in order
MassTypeIds(d) == [i \in DOMAIN d.atomic_masses |-> d.atomic_masses[i][1]]

\* C5: from_file on the text of __str__ returns a system with the same
\* number of atom, bond, angle, dihedral and improper records and the same
\* mass table type ids
C5_RoundTrip ==
    /\ parser.raised = "none"
    /\ (pc = "constructed" =>
          /\ parsed.natoms = data.natoms
          /\ parsed.nbonds = data.nbonds
          /\ parsed.nangles = data.nangles
          /\ parsed.ndih = data.ndih
          /\ parsed.nimdihs = data.nimdihs
          /\ MassTypeIds(parsed) = MassTypeIds(data))

\* C6: from_file raises on no sequence of lines
C6_ParserNeverFails == parser.raised = "none"

\* the text holds a line "<N> <word>" / "<N> <word> types"
HasCountLine(word) ==
    \E i \in DOMAIN text :
        Len(text[i]) = 2 /\ text[i][1].k = "int" /\ text[i][2].k = word
HasTypesLine(word) ==
    \E i \in DOMAIN text :
        /\ Len(text[i]) = 3 /\ text[i][1].k = "int"
        /\ text[i][2].k = word /\ text[i][3].k = "types"

\* the text holds exactly this line
HasLine(l) == \E i \in DOMAIN text : text[i] = l

ReplicaTypes == Flatten([t \in DOMAIN mols |-> [p \in 1..mols_number[t] |-> t]])

\* the charge the topology of molecule type t holds for its local atom l
\* (1-based), 0 when that topology has no charge data
OwnCharge(t, l) ==
    LET c == topologies[t].charges IN
    IF c.kind = "list" /\ c.items # <<>> THEN c.items[l] ELSE 0

\* C11: get_atoms_data raises no error, and the charge field of the atom
\* owned by (molecule type t, local atom l) is the charge of type t's own
\* topology for l, or 0 when type t's own topology has no charge data,
\* whatever the topologies of the other types hold
C11_OwnTopologyCharge ==
    /\ (pc = "atoms" => raised = "none")
    /\ (pc = "params" =>
          \A g \in DOMAIN molid_to_atomid :
              \A l \in DOMAIN molid_to_atomid[g] :
                  atoms_data[molid_to_atomid[g][l] + 1][3] = OwnCharge(ReplicaTypes[g], l))

\* the owner (type t, replica p, local interaction k), all 1-based, of every
\* interaction of the system in (type, replica, interaction) order
InteractionOwners ==
    Flatten([t \in DOMAIN topologies |->
        Flatten([p \in 1..mols_number[t] |->
            [k \in DOMAIN InteractionsOf(t) |-> <<t, p, k>>]])])

\* the position in molid_to_atomid of replica p of molecule type t
ReplicaIndex(t, p) == SumSeq([u \in 1..(t - 1) |-> mols_number[u]]) + p

\* the atom-id fields of a bonded record
AtomFields(row) == SubSeq(row, 3, Len(row))

\* C12: the record emitted for the local interaction (a_1..a_k, label) of
\* replica p of molecule type t carries, in order, the 1-based global atom
\* ids get_atoms_data assigned to (t, p, a_1)..(t, p, a_k); they lie in
\* 1..natoms, and records of different replicas share no atom
C12_PerReplicaTranslation ==
    pc = "done" =>
        /\ \A i \in DOMAIN param_to_mol :
              ~Unresolved(EnumLabels[i]) =>
                 LET o == InteractionOwners[i]
                     local == InteractionsOf(o[1])[o[3]]
                     row == param_data[RowOf(i)]
                 IN /\ param_to_mol[i][2][2] + 1 = o[1]
                    /\ param_to_mol[i][2][3] + 1 = o[3]
                    /\ AtomFields(row) =
                          [a \in 1..(Len(local) - 1) |->
                              molid_to_atomid[ReplicaIndex(o[1], o[2])][local[a] + 1] + 1]
                    /\ \A a \in DOMAIN AtomFields(row) : AtomFields(row)[a] \in 1..molecule
        /\ \A i, j \in DOMAIN param_to_mol :
              (/\ ~Unresolved(EnumLabels[i]) /\ ~Unresolved(EnumLabels[j])
               /\ param_to_mol[i][2][1] # param_to_mol[j][2][1])
              => Range(AtomFields(param_data[RowOf(i)]))
                    \cap Range(AtomFields(param_data[RowOf(j)])) = {}

\* records were emitted for both replicas of the first type and for a
\* replica of a later type
C12_Witness ==
    /\ pc = "done" /\ Len(mols) = 2 /\ mols_number[1] = 2
    /\ Len(param_data) >= 3
    /\ AtomFields(param_data[2]) = <<3, 4>>
    /\ AtomFields(param_data[3]) = <<5, 6>>

\* the active flag, the table and the expected count of every coefficient family
Families ==
    {[flag |-> "read_pair_coeffs", coeffs |-> "pair_coeffs", count |-> "npair_types",
      name |-> "pair"],
     [flag |-> "read_bond_coeffs", coeffs |-> "bond_coeffs", count |-> "nbond_types",
      name |-> "bond"],
     [flag |-> "read_angle_coeffs", coeffs |-> "angle_coeffs", count |-> "nangle_types",
      name |-> "angle"],
     [flag |-> "read_dihedral_coeffs", coeffs |-> "dihedral_coeffs",
      count |-> "ndihedral_types", name |-> "dihedral"],
     [flag |-> "read_improper_coeffs", coeffs |-> "improper_coeffs",
      count |-> "nimproper_types", name |-> "improper"]}

\* the families whose section is active
ActiveFamilies == {f \in Families : parser[f.flag]}

\* C13: after any prefix of any input at most one coefficient family's
\* section is active in from_file
C13_SingleActiveSection == Cardinality(ActiveFamilies) <= 1

\* a coefficient row "id value_1 ... value_n" with n >= 1
IsCoeffRow(l) ==
    Len(l) >= 2 /\ IsDigits(l[1]) /\ \A i \in 2..Len(l) : IsNumber(l[i])

\* the table row of a coefficient row: the integer id, then the values
CoeffRowOf(l) == <<ToInt(l[1])>> \o [i \in 1..(Len(l) - 1) |-> ToFloat(l[i + 1])]

\* C14: a coefficient row read by from_file while a family's section is
\* active is appended as one row (its id, then all of its values) to that
\* family's table, for each of the five families and any number of values
C14_RowCapture ==
    [][(lineno' = lineno + 1 /\ parser'.raised = "none" /\ IsCoeffRow(line')) =>
          \A f \in Families :
              parser[f.flag] =>
                  parser'[f.coeffs] = Append(parser[f.coeffs], CoeffRowOf(line'))]_vars

\* the step of from_file over one more line appended a row to f's table
Grew(f) == Len(parser'[f.coeffs]) > Len(parser[f.coeffs])

BondedTable(n) ==
    CASE n = 4 -> "bonds_data" [] n = 5 -> "angles_data" [] n = 6 -> "dihedral_data"

\* C16: from_file appends no row to the bond, angle or dihedral record table
\* while the atom record table is empty, and a line of exactly 4, 5 or 6
\* integer fields read after the first atom row is appended to the bond,
\* angle or dihedral record table respectively and to no other of the three
C16_BondedRowsAfterAtoms ==
    [][lineno' = lineno + 1 =>
          /\ parser.atoms_data = <<>> =>
                \A n \in 4..6 : parser'[BondedTable(n)] = parser[BondedTable(n)]
          /\ \A n \in 4..6 :
                (IntRowMatch(line', n) /\ parser.atoms_data # <<>>) =>
                    /\ parser'[BondedTable(n)] =
                          Append(parser[BondedTable(n)], IntRow(line'))
                    /\ \A m \in (4..6) \ {n} :
                          parser'[BondedTable(m)] = parser[BondedTable(m)]]_vars

\* C17: in a system built by from_forcefield_and_topology the type id of
\* every emitted record is the id of a row of the family's coefficient
\* table (between 1 and the number of rows), and the number of types the
\* object stores for the family is the number of rows of that table
C17_TypeIdIntegrity ==
    pc = "done" =>
        /\ \A j \in DOMAIN param_data :
              /\ param_data[j][2] \in 1..Len(param_coeffs)
              /\ param_coeffs[param_data[j][2]][1] = param_data[j][2]
        /\ BuiltSystem("bonds").nbond_types = Len(param_coeffs)
        /\ BuiltSystem("angles").nangle_types = Len(param_coeffs)
        /\ BuiltSystem("dihedrals").ndih_types = Len(param_coeffs)
        /\ BuiltSystem("imdihedrals").nimdih_types = Len(param_coeffs)
        /\ BuiltSystem("bonds").bonds_data = param_data

\* a record that refers to the second of two coefficient rows
C17_Witness ==
    /\ pc = "done" /\ Len(param_coeffs) = 2
    /\ \E j \in DOMAIN param_data : param_data[j][2] = 2

====
